---- MODULE Spec2Model ----
(***************************************************************************)
(* A model of scripts/normalize_notebooks.py: the front-matter line        *)
(* normalizer, the cell id ensurer, fix_notebook and the batch driver.     *)
(*                                                                         *)
(* Text is modelled as it is in Python: a str is a sequence of one-        *)
(* character strings, and strip, lower, splitlines, join, the regular      *)
(* expression FRONT_MATTER_KEY_RE and str.replace are computed character   *)
(* by character.  The alphabet is ASCII; the white space of the model is   *)
(* space, tab, line feed and carriage return, and the line boundaries of   *)
(* splitlines are "\n", "\r" and "\r\n".                                   *)
(***************************************************************************)
EXTENDS Naturals, Sequences, FiniteSets, TLC

VARIABLES
    notebooks,  \* main: the glob result, a list of paths
    disk,       \* storage: path -> [readable, nb]
    pos,        \* main: index in notebooks of the next fix_notebook call
    run,        \* how many times the program has been started
    uuids,      \* how many uuid4 values have been drawn
    out,        \* standard output of the current run: a list of [kind, path]
    start,      \* history: the disk when the current run started
    calls,      \* history: the fix_notebook calls of this run, [path, wfail] each
    last,       \* history: what the last fix_notebook call saw and did
    fm_in,      \* normalize_front_matter_lines: the argument
    fm_out,     \* normalize_front_matter_lines: the returned list
    fm_done     \* whether normalize_front_matter_lines has returned

vars == <<notebooks, disk, pos, run, uuids, out, start, calls, last,
          fm_in, fm_out, fm_done>>

----------------------------------------------------------------------------
(* Python str primitives *)

Chars(s) == [i \in 1..Len(s) |-> SubSeq(s, i, i)]

UpperChars == Chars("ABCDEFGHIJKLMNOPQRSTUVWXYZ")
LowerChars == Chars("abcdefghijklmnopqrstuvwxyz")
DigitChars == Chars("0123456789")

Range(f) == {f[i] : i \in DOMAIN f}

MinOf(S) == CHOOSE i \in S : \A j \in S : i <= j

\* str.isspace of one character, within the alphabet
IsSpace(c) == c \in {" ", "\t", "\n", "\r"}

\* the boundaries str.splitlines splits on, within the alphabet
LineBreaks == {"\n", "\r"}

lower_char(c) ==
    IF c \in Range(UpperChars)
    THEN LowerChars[CHOOSE i \in DOMAIN UpperChars : UpperChars[i] = c]
    ELSE c

lower(s) == [i \in 1..Len(s) |-> lower_char(s[i])]

startswith(s, p) == Len(s) >= Len(p) /\ SubSeq(s, 1, Len(p)) = p

endswith(s, p) == Len(s) >= Len(p) /\ SubSeq(s, Len(s) - Len(p) + 1, Len(s)) = p

contains_char(s, c) == \E i \in 1..Len(s) : s[i] = c

lstrip(s) ==
    LET keep == {i \in 1..Len(s) : ~IsSpace(s[i])}
    IN  IF keep = {} THEN <<>> ELSE SubSeq(s, MinOf(keep), Len(s))

rstrip(s) ==
    LET keep == {i \in 1..Len(s) : ~IsSpace(s[i])}
    IN  IF keep = {} THEN <<>>
        ELSE SubSeq(s, 1, CHOOSE i \in keep : \A j \in keep : j <= i)

strip(s) == rstrip(lstrip(s))

RECURSIVE splitlines(_)
splitlines(s) ==
    LET brk == {i \in 1..Len(s) : s[i] \in LineBreaks}
    IN  IF s = <<>> THEN <<>>
        ELSE IF brk = {} THEN <<s>>
        ELSE LET i == MinOf(brk)
                 n == IF s[i] = "\r" /\ i < Len(s) /\ s[i + 1] = "\n"
                      THEN i + 1 ELSE i
             IN  <<SubSeq(s, 1, i - 1)>> \o splitlines(SubSeq(s, n + 1, Len(s)))

RECURSIVE join(_, _)
join(sep, lines) ==
    IF lines = <<>> THEN <<>>
    ELSE IF Len(lines) = 1 THEN lines[1]
    ELSE lines[1] \o sep \o join(sep, Tail(lines))

\* a slip in the escaping: embedded double quotes are left as they are
escape_nothing(s) == s

\* val.replace('"', '\\"')
RECURSIVE escape_quotes(_)
escape_quotes(s) ==
    IF s = <<>> THEN <<>>
    ELSE (IF s[1] = "\"" THEN <<"\\", "\"">> ELSE <<s[1]>>)
         \o escape_quotes(Tail(s))

----------------------------------------------------------------------------
(* quote_value *)

DQ == <<"\"">>
SQ == <<"'">>
NL == <<"\n">>

is_quoted(val) ==
    \/ startswith(val, DQ) /\ endswith(val, DQ)
    \/ startswith(val, SQ) /\ endswith(val, SQ)

needs_quotes(val) ==
    \/ contains_char(val, ":")
    \/ startswith(val, <<" ">>)
    \/ endswith(val, <<" ">>)
    \/ contains_char(val, "\n")
    \/ startswith(val, <<"#">>)

quote_value(raw) ==
    LET val == strip(raw)
    IN  IF is_quoted(val) THEN val
        ELSE IF lower(val) \in {Chars("true"), Chars("false"), Chars("null")}
        THEN lower(val)
        ELSE IF needs_quotes(val) THEN DQ \o escape_quotes(val) \o DQ
        ELSE val

----------------------------------------------------------------------------
(* FRONT_MATTER_KEY_RE and normalize_front_matter_lines *)

IsKeyChar(c) ==
    c \in Range(UpperChars) \cup Range(LowerChars) \cup Range(DigitChars) \cup {"_", "-"}

\* the length of the longest prefix of key characters
key_len(line) ==
    LET stop == {i \in 1..Len(line) : ~IsKeyChar(line[i])}
    IN  IF stop = {} THEN Len(line) ELSE MinOf(stop) - 1

\* FRONT_MATTER_KEY_RE.match(line) is not None
re_matches(line) ==
    LET k == key_len(line)
    IN  k >= 1 /\ k < Len(line) /\ line[k + 1] = ":"

\* m.group('key')
re_key(line) == SubSeq(line, 1, key_len(line))

\* m.group('val'): what follows the colon and the white space \s* after it
re_val(line) == lstrip(SubSeq(line, key_len(line) + 2, Len(line)))

KeySep == <<":", " ">>

\* a slip in the comments branch: an unrecognized value is kept
comments_value_kept(val) == lower(strip(val))

\* the value emitted for the key 'comments'
comments_value(val) ==
    LET v == lower(strip(val))
    IN  IF v \in {Chars("true"), Chars("false")} THEN v ELSE Chars("true")

normalize_line(line) ==
    IF ~re_matches(line) THEN line
    ELSE LET key == re_key(line)
             val == re_val(line)
         IN  IF lower(key) = Chars("comments")
             THEN key \o KeySep \o comments_value(val)
             ELSE IF \/ lower(key) \in {Chars("title"), Chars("description")}
                     \/ contains_char(val, ":")
             THEN key \o KeySep \o quote_value(val)
             ELSE line

normalize_front_matter_lines(lines) ==
    [i \in 1..Len(lines) |-> normalize_line(lines[i])]

----------------------------------------------------------------------------
(* fix_notebook: the cell ids *)

\* a slip in the generator: the value is drawn once and used for every cell
uuid4_once(n) == "uuid4-0"

\* str(uuid.uuid4()): the n-th value drawn; the values drawn are pairwise
\* distinct and differ from every id a document already holds
uuid4(n) == "uuid4-" \o ToString(n)

\* 'id' not in cell or not cell.get('id')
needs_id(cell) == ~cell.has_id \/ cell.id = ""

\* a slip in the loop: only a cell without the key 'id' is given one
assign_ids_absent_only(cells, u) ==
    [i \in 1..Len(cells) |->
        IF ~cells[i].has_id
        THEN [cells[i] EXCEPT !.has_id = TRUE, !.id = uuid4(u + i)]
        ELSE cells[i]]

\* the loop over nb.get('cells', []), with u values drawn before it
assign_ids(cells, u) ==
    [i \in 1..Len(cells) |->
        IF needs_id(cells[i])
        THEN [cells[i] EXCEPT
                 !.has_id = TRUE,
                 !.id = uuid4(u + Cardinality({j \in 1..i : needs_id(cells[j])}))]
        ELSE cells[i]]

----------------------------------------------------------------------------
(* fix_notebook: the front matter of the first cell *)

TITLE_SCAN == 3
HEAD_LINES == 6

DASHES == Chars("---")

detected(src_text) ==
    LET lines == splitlines(src_text)
    IN  \/ startswith(lstrip(src_text), DASHES)
        \/ \E i \in 1..Len(lines) : i <= TITLE_SCAN /\ lines[i] = Chars("title:")

\* a slip in the search: the last '---' line is taken as the closing one
closing_index_last(lines) ==
    LET ends == {i \in 2..Len(lines) : lines[i] = DASHES}
    IN  IF ends = {} THEN 0 ELSE CHOOSE i \in ends : \A j \in ends : j <= i

\* lines.index('---', 1), or 0 for ValueError
closing_index(lines) ==
    LET ends == {i \in 2..Len(lines) : lines[i] = DASHES}
    IN  IF ends = {} THEN 0 ELSE MinOf(ends)

closed_source(src_text, lines, end) ==
    join(NL, <<DASHES>>
             \o normalize_front_matter_lines(SubSeq(lines, 2, end - 1))
             \o <<DASHES>>
             \o SubSeq(lines, end + 1, Len(lines)))
    \o (IF endswith(src_text, NL) THEN NL ELSE <<>>)

unclosed_source(lines) == join(NL, normalize_front_matter_lines(lines))

\* the slices lines[:n] and lines[n:]
take(lines, n) == SubSeq(lines, 1, IF n < Len(lines) THEN n ELSE Len(lines))
drop(lines, n) == SubSeq(lines, n + 1, Len(lines))

head_source(lines) ==
    join(NL, normalize_front_matter_lines(take(lines, HEAD_LINES))
             \o drop(lines, HEAD_LINES))

\* first['source'] once front matter was detected
new_source(src_text) ==
    LET lines == splitlines(src_text)
    IN  IF lines # <<>> /\ strip(lines[1]) = DASHES
        THEN IF closing_index(lines) # 0
             THEN closed_source(src_text, lines, closing_index(lines))
             ELSE unclosed_source(lines)
        ELSE head_source(lines)

\* the first cell once front matter was detected
fix_first(first) ==
    [first EXCEPT !.cell_type = "markdown", !.source = new_source(first.source)]

\* fix_notebook between nbformat.read and the test of changed: the notebook in
\* memory and the flags, with u uuid4 values drawn before the call.  A source
\* is the text src_text: a source held as a list of strings is joined to it
\* first.  changed is set in every branch that follows a detection.
fix_cells(cells, u) ==
    LET ided == assign_ids(cells, u)
        idc  == \E i \in 1..Len(cells) : needs_id(cells[i])
        det  == cells # <<>> /\ detected(ided[1].source)
    IN  [cells      |-> IF det THEN [ided EXCEPT ![1] = fix_first(ided[1])] ELSE ided,
         id_changed |-> idc,
         detected   |-> det,
         changed    |-> idc \/ det,
         drawn      |-> Cardinality({i \in 1..Len(cells) : needs_id(cells[i])})]

----------------------------------------------------------------------------
(* Bounds *)

MaxDocs == 3      \* documents the batch driver discovers
MaxRuns == 2      \* times the program is started
MaxCells == 3     \* cells of a document whose ids vary
MaxSrcLines == 1  \* lines drawn freely into a first cell's source
MaxFmLines == 2   \* lines handed to normalize_front_matter_lines

----------------------------------------------------------------------------
(* fix_notebook and main *)

NoCall ==
    [path |-> 0, readable |-> FALSE, before |-> <<>>, after |-> <<>>,
     id_changed |-> FALSE, detected |-> FALSE, changed |-> FALSE,
     wrote |-> FALSE, wfail |-> FALSE, settled |-> FALSE]

\* what fix_notebook(path) saw and did
Call(path, r, wfail) ==
    [path |-> path, readable |-> TRUE,
     before |-> disk[path].cells, after |-> r.cells,
     id_changed |-> r.id_changed, detected |-> r.detected, changed |-> r.changed,
     wrote |-> r.changed /\ ~wfail, wfail |-> r.changed /\ wfail,
     settled |-> disk[path].settled]

Running == pos \in 1..Len(notebooks)

\* nbformat.read raises: fix_notebook returns, nothing is written or printed
FixUnreadable ==
    /\ Running
    /\ ~disk[notebooks[pos]].readable
    /\ last' = [NoCall EXCEPT !.path = notebooks[pos]]
    /\ calls' = Append(calls, [path |-> notebooks[pos], wfail |-> FALSE])
    /\ pos' = pos + 1
    /\ UNCHANGED <<notebooks, disk, run, uuids, out, start, fm_in, fm_out, fm_done>>

\* changed stays False: nothing is written or printed
FixUnchanged ==
    /\ Running
    /\ disk[notebooks[pos]].readable
    /\ LET p == notebooks[pos]
           r == fix_cells(disk[p].cells, uuids)
       IN  /\ ~r.changed
           /\ last' = Call(p, r, FALSE)
           /\ disk' = [disk EXCEPT ![p].settled = TRUE]
    /\ calls' = Append(calls, [path |-> notebooks[pos], wfail |-> FALSE])
    /\ pos' = pos + 1
    /\ UNCHANGED <<notebooks, run, uuids, out, start, fm_in, fm_out, fm_done>>

\* changed is True and nbformat.write succeeds
FixWritten ==
    /\ Running
    /\ disk[notebooks[pos]].readable
    /\ LET p == notebooks[pos]
           r == fix_cells(disk[p].cells, uuids)
       IN  /\ r.changed
           /\ last' = Call(p, r, FALSE)
           /\ disk' = [disk EXCEPT ![p] = [readable |-> TRUE, cells |-> r.cells,
                                           settled |-> TRUE]]
           /\ uuids' = uuids + r.drawn
           /\ out' = Append(out, [kind |-> "Normalized", path |-> p])
    /\ calls' = Append(calls, [path |-> notebooks[pos], wfail |-> FALSE])
    /\ pos' = pos + 1
    /\ UNCHANGED <<notebooks, run, start, fm_in, fm_out, fm_done>>

\* a slip in fix_notebook: the exception of nbformat.write is not caught and
\* ends main
FixWriteAborts ==
    /\ Running
    /\ disk[notebooks[pos]].readable
    /\ LET p == notebooks[pos]
           r == fix_cells(disk[p].cells, uuids)
       IN  /\ r.changed
           /\ last' = Call(p, r, TRUE)
           /\ uuids' = uuids + r.drawn
    /\ calls' = Append(calls, [path |-> notebooks[pos], wfail |-> TRUE])
    /\ pos' = Len(notebooks) + 1
    /\ UNCHANGED <<notebooks, disk, run, out, start, fm_in, fm_out, fm_done>>

\* changed is True and nbformat.write raises: the failure is printed, the
\* stored document stays as it was
FixWriteFailed ==
    /\ Running
    /\ disk[notebooks[pos]].readable
    /\ LET p == notebooks[pos]
           r == fix_cells(disk[p].cells, uuids)
       IN  /\ r.changed
           /\ last' = Call(p, r, TRUE)
           /\ uuids' = uuids + r.drawn
           /\ out' = Append(out, [kind |-> "Failed to write", path |-> p])
    /\ calls' = Append(calls, [path |-> notebooks[pos], wfail |-> TRUE])
    /\ pos' = pos + 1
    /\ UNCHANGED <<notebooks, disk, run, start, fm_in, fm_out, fm_done>>

\* the program has exited and is started again on the same tree
Rerun ==
    /\ pos = Len(notebooks) + 1
    /\ notebooks # <<>>
    /\ run < MaxRuns
    /\ run' = run + 1
    /\ pos' = 1
    /\ out' = <<>>
    /\ calls' = <<>>
    /\ start' = disk
    /\ UNCHANGED <<notebooks, disk, uuids, last, fm_in, fm_out, fm_done>>

\* main: one iteration of the loop over notebooks
MainStep ==
    \/ FixUnreadable
    \/ FixUnchanged
    \/ FixWritten
    \/ FixWriteFailed

Next ==
    \/ FixUnreadable
    \/ FixUnchanged
    \/ FixWritten
    \/ FixWriteFailed
    \/ Rerun

\* one call of normalize_front_matter_lines
Normalize ==
    /\ ~fm_done
    /\ fm_out' = normalize_front_matter_lines(fm_in)
    /\ fm_done' = TRUE
    /\ UNCHANGED <<notebooks, disk, pos, run, uuids, out, start, calls, last, fm_in>>

NextFM == Normalize

----------------------------------------------------------------------------
(* Documents the program is started on *)

Cell(has_id, id, cell_type, source) ==
    [has_id |-> has_id, id |-> id, cell_type |-> cell_type, source |-> source]

File(cells) == [readable |-> TRUE, cells |-> cells, settled |-> FALSE]

Unreadable == [readable |-> FALSE, cells |-> <<>>, settled |-> FALSE]

SeqsUpTo(S, n) == UNION {[1..k -> S] : k \in 0..n}

FrontMatter == Chars("---\ntitle: Hello: World\ncomments: YES\n---\nbody")
Normalized == Chars("---\ntitle: \"Hello: World\"\ncomments: true\n---\nbody")

\* the id of a cell as stored: absent, empty, or one of two tokens
IdChoices == {<<FALSE, "">>, <<TRUE, "">>, <<TRUE, "a">>, <<TRUE, "b">>}

\* the batch: each discovered document is one of these
BatchFiles ==
    { Unreadable,
      File(<<>>),
      File(<<Cell(TRUE, "a", "markdown", Chars("plain")),
             Cell(TRUE, "b", "code", Chars("x = 1"))>>),
      File(<<Cell(TRUE, "a", "code", Chars("title: Hello")),
             Cell(FALSE, "", "code", Chars("y"))>>),
      File(<<Cell(TRUE, "a", "code", FrontMatter)>>),
      File(<<Cell(TRUE, "a", "markdown", Normalized)>>) }

\* ids: every assignment of stored ids to up to MaxCells cells
IdFiles ==
    { File([i \in 1..Len(ids) |->
              Cell(ids[i][1], ids[i][2],
                   IF i = 1 THEN first[1] ELSE "code",
                   IF i = 1 THEN first[2] ELSE Chars("y"))]) :
        ids \in SeqsUpTo(IdChoices, MaxCells),
        first \in {<<"markdown", Chars("plain")>>, <<"code", FrontMatter>>} }
    \cup {Unreadable}

\* first-cell sources: lines drawn from DocLines, alone or set in a block
DocLines ==
    { Chars(""), Chars("---"), Chars(" --- "), Chars("title:"),
      Chars("Title: My: Post"), Chars("title: Hello"), Chars("comments: YES"),
      Chars("tags: a, b") }

Filler(n) == [i \in 1..n |-> Chars("text")]

Tail3 == <<DASHES, Chars("body"), Chars("link: http://x"), DASHES>>

Layouts(s) ==
    { s,
      <<DASHES>> \o s,
      <<DASHES>> \o s \o Tail3,
      <<Chars("title:")>> \o Filler(HEAD_LINES - 2) \o s,
      <<Chars("title:")>> \o Filler(HEAD_LINES - 1) \o s }

\* line separator and what follows the last line
Endings ==
    { <<NL, <<>>>>, <<NL, NL>>, <<NL, NL \o NL>>, <<NL, <<"\n", "\r">>>>,
      <<<<"\r", "\n">>, <<"\r", "\n">>>> }

Sources ==
    { join(e[1], lines) \o e[2] :
        e \in Endings,
        lines \in UNION {Layouts(s) : s \in SeqsUpTo(DocLines, MaxSrcLines)} }

NbFiles ==
    { File(<<Cell(TRUE, "a", ct, s),
             Cell(TRUE, "b", "code", FrontMatter)>>) :
        ct \in {"markdown", "code"}, s \in Sources }
    \cup {Unreadable, File(<<>>)}

InitOn(files, counts) ==
    /\ notebooks \in {[i \in 1..n |-> i] : n \in counts}
    /\ disk \in [1..Len(notebooks) -> files]
    /\ pos = 1
    /\ run = 1
    /\ uuids = 0
    /\ out = <<>>
    /\ start = disk
    /\ calls = <<>>
    /\ last = NoCall
    /\ fm_in = <<>>
    /\ fm_out = <<>>
    /\ fm_done = FALSE

\* one run of the batch driver on up to MaxDocs documents; main is a plain
\* loop with no suspension point, so while documents are left it advances
Init == InitOn(BatchFiles, 0..MaxDocs)

\* the loop of main moves to the next document
Advance == Running /\ pos' = pos + 1

Spec == Init /\ [][MainStep]_vars /\ WF_pos(Advance)

\* one document whose cells' ids vary
InitIds == InitOn(IdFiles, {1})

SpecIds == InitIds /\ [][Next]_vars

\* one document whose first cell's source varies
InitNb == InitOn(NbFiles, {1})

SpecNb == InitNb /\ [][Next]_vars

----------------------------------------------------------------------------
(* Lines normalize_front_matter_lines is called on *)

FmKeys ==
    { Chars("title"), Chars("Title"), Chars("description"), Chars("DESCRIPTION"),
      Chars("comments"), Chars("Comments"), Chars("COMMENTS"), Chars("tags"),
      Chars("x-1_y") }

FmSeps == { Chars(":"), Chars(": "), Chars(":  "), Chars(":\t") }

FmValues ==
    { Chars(""), Chars("true"), Chars("True"), Chars("tRuE"), Chars("false"),
      Chars("FALSE"), Chars("yes"), Chars("null"), Chars("NULL"), Chars("plain"),
      Chars("two words"), Chars("My: Post"), Chars("a:b"), Chars("#tag"),
      Chars("\"Already: quoted\""), Chars("'single: quoted'"), Chars("\"plain\""),
      Chars("\"open: quote"), Chars("say \"hi\": there"), Chars("'mixed: quote\""),
      Chars("\""), Chars("back\\slash: x") }

FmTrails == { Chars(""), Chars(" ") }

KeyLines ==
    { k \o s \o v \o t : k \in FmKeys, s \in FmSeps, v \in FmValues, t \in FmTrails }

OtherLines ==
    { Chars(""), Chars("---"), Chars(" title: indented"), Chars("no colon"),
      Chars(": no key"), Chars("two words: x"), Chars("title") }

RestLines == { Chars("comments: No"), Chars("key: value") }

FmInputs ==
    UNION { { <<l>> \o rest, rest \o <<l>> } :
              l \in KeyLines \cup OtherLines,
              rest \in SeqsUpTo(RestLines, MaxFmLines - 1) }
    \cup {<<>>}

InitFM ==
    /\ notebooks = <<>>
    /\ disk = <<>>
    /\ pos = 1
    /\ run = 1
    /\ uuids = 0
    /\ out = <<>>
    /\ start = <<>>
    /\ calls = <<>>
    /\ last = NoCall
    /\ fm_in \in FmInputs
    /\ fm_out = <<>>
    /\ fm_done = FALSE

SpecFM == InitFM /\ [][NextFM]_vars

----------------------------------------------------------------------------
(* The line normalizer *)

TrueText == Chars("true")
FalseText == Chars("false")

CommentsLine(line) == re_matches(line) /\ lower(re_key(line)) = Chars("comments")

TitleLine(line) ==
    re_matches(line) /\ lower(re_key(line)) \in {Chars("title"), Chars("description")}

Wrapped(val) ==
    \E q \in {"\"", "'"} : Len(val) >= 1 /\ val[1] = q /\ val[Len(val)] = q

\* C5: every line whose key is 'comments' in any casing is emitted as
\* '<key>: false' when its trimmed, lowercased value is 'false' and as
\* '<key>: true' in every other case
C5_BooleanCoercion ==
    fm_done =>
        /\ Len(fm_out) = Len(fm_in)
        /\ \A i \in 1..Len(fm_in) :
              CommentsLine(fm_in[i]) =>
                  fm_out[i] = re_key(fm_in[i]) \o Chars(": ")
                              \o (IF lower(strip(re_val(fm_in[i]))) = FalseText
                                  THEN FalseText ELSE TrueText)

\* an upper-case key with an unrecognized value, emitted with the default
C5_Witness ==
    /\ fm_done
    /\ \E i \in 1..Len(fm_in) :
          /\ startswith(fm_in[i], Chars("COMMENTS:"))
          /\ strip(re_val(fm_in[i])) = Chars("yes")
          /\ fm_out[i] = Chars("COMMENTS: true")

\* where character i of s starts in the escaped text: one place further for
\* every double quote before it
EscapedAt(s, i) == i + Cardinality({j \in 1..(i - 1) : s[j] = "\""})

\* s with a backslash put before every double quote
EscapedText(s) ==
    [k \in 1..EscapedAt(s, Len(s) + 1) - 1 |->
        IF \E i \in 1..Len(s) : s[i] = "\"" /\ k = EscapedAt(s, i)
        THEN "\\"
        ELSE s[CHOOSE i \in 1..Len(s) :
                   k = EscapedAt(s, i) + (IF s[i] = "\"" THEN 1 ELSE 0)]]

QuotedAndEscaped(line) ==
    re_key(line) \o Chars(": ") \o DQ \o EscapedText(strip(re_val(line))) \o DQ

ColonTitle(line) == TitleLine(line) /\ contains_char(re_val(line), ":")

\* C6 as claimed: a title or description value with a colon is emitted quoted
\* and escaped unless already wrapped in quotes, and then the line is emitted
\* byte-identical
C6_QuotingAsClaimed ==
    fm_done =>
        \A i \in 1..Len(fm_in) :
            ColonTitle(fm_in[i]) =>
                IF Wrapped(strip(re_val(fm_in[i])))
                THEN fm_out[i] = fm_in[i]
                ELSE fm_out[i] = QuotedAndEscaped(fm_in[i])

\* C6 as amended: an already wrapped value is emitted unchanged after
\* '<key>: ', the white space around it in the input line is not kept
C6_Quoting ==
    fm_done =>
        \A i \in 1..Len(fm_in) :
            ColonTitle(fm_in[i]) =>
                IF Wrapped(strip(re_val(fm_in[i])))
                THEN fm_out[i] = re_key(fm_in[i]) \o Chars(": ") \o strip(re_val(fm_in[i]))
                ELSE fm_out[i] = QuotedAndEscaped(fm_in[i])

\* a value with a colon and an embedded double quote was quoted and escaped
C6_Witness ==
    /\ fm_done
    /\ \E i \in 1..Len(fm_in) :
          /\ fm_in[i] = Chars("title: say \"hi\": there")
          /\ fm_out[i] = Chars("title: \"say \\\"hi\\\": there\"")

----------------------------------------------------------------------------
(* The cell ids *)

Before == last.before
After == last.after

\* C3: after a readable document is processed every cell has a non-empty id,
\* a cell that had a non-empty id keeps it, the cells are as many and in the
\* same order, and with no id missing the id step records no change
C3_IdsEnsured ==
    last.readable =>
        /\ Len(After) = Len(Before)
        /\ \A i \in 1..Len(After) : After[i].has_id /\ After[i].id # ""
        /\ \A i \in 1..Len(Before) :
              (Before[i].has_id /\ Before[i].id # "") => After[i].id = Before[i].id
        /\ \A i \in 2..Len(Before) :
              /\ After[i].cell_type = Before[i].cell_type
              /\ After[i].source = Before[i].source
        /\ (\A i \in 1..Len(Before) : Before[i].has_id /\ Before[i].id # "")
              => ~last.id_changed

\* a document with a cell without id, a cell with an empty id and a cell with
\* an id was processed
C3_Witness ==
    /\ last.readable
    /\ \E i, j, k \in 1..Len(Before) :
          /\ ~Before[i].has_id
          /\ Before[j].has_id /\ Before[j].id = ""
          /\ Before[k].id = "a" /\ After[k].id = "a"
          /\ After[i].id # "" /\ After[j].id # ""

\* C4 as claimed: no two cells of a processed document share an id
C4_UniqueAsClaimed ==
    last.readable =>
        \A i, j \in 1..Len(After) : i # j => After[i].id # After[j].id

\* C4 as amended: two cells of a processed document share an id only if both
\* held that same non-empty id before
C4_UniqueUnlessShared ==
    last.readable =>
        \A i, j \in 1..Len(After) :
            (i # j /\ After[i].id = After[j].id) =>
                /\ Before[i].has_id /\ Before[j].has_id
                /\ Before[i].id # ""
                /\ Before[i].id = Before[j].id

\* two cells were given ids, next to a cell that had one
C4_Witness ==
    /\ last.readable
    /\ \E i, j, k \in 1..Len(Before) :
          /\ i # j
          /\ needs_id(Before[i]) /\ needs_id(Before[j]) /\ ~needs_id(Before[k])
          /\ Cardinality({After[i].id, After[j].id, After[k].id}) = 3

----------------------------------------------------------------------------
(* The batch driver *)

\* the lines printed for a path in this run
Printed(p) == SelectSeq(out, LAMBDA e : e.path = p)

\* the cells with every generated id masked
Masked(cells, orig) ==
    [i \in 1..Len(cells) |->
        IF needs_id(orig[i]) THEN [cells[i] EXCEPT !.id = "generated"] ELSE cells[i]]

\* fix_notebook on the document stored at p when the run started, alone
Alone(p) == fix_cells(start[p].cells, 0)

\* C10 (state part): the documents attempted so far are the first of the
\* discovered list, once each and in order; an unreadable document is neither
\* written nor logged; a failed write is logged and leaves the document; and
\* what happened to a document is what fix_notebook does on it alone
C10_EachOnce ==
    /\ Len(calls) = pos - 1
    /\ \A i \in 1..Len(calls) : calls[i].path = notebooks[i]
    /\ Len(out) <= Len(calls)
    /\ \A i \in 1..Len(notebooks) :
          LET p == notebooks[i]
          IN  IF i >= pos
              THEN disk[p].cells = start[p].cells /\ Printed(p) = <<>>
              ELSE IF ~start[p].readable
              THEN /\ disk[p] = start[p]
                   /\ Printed(p) = <<>>
              ELSE IF ~Alone(p).changed
              THEN /\ disk[p].cells = start[p].cells
                   /\ Printed(p) = <<>>
              ELSE IF calls[i].wfail
              THEN /\ disk[p].cells = start[p].cells
                   /\ Printed(p) = <<[kind |-> "Failed to write", path |-> p]>>
              ELSE /\ Masked(disk[p].cells, start[p].cells)
                        = Masked(Alone(p).cells, start[p].cells)
                   /\ Printed(p) = <<[kind |-> "Normalized", path |-> p]>>

\* C10: main attempts every discovered document once, in discovery order,
\* isolates each failure as C10_EachOnce says, and runs to completion
C10_Isolation == []C10_EachOnce /\ <>(pos = Len(notebooks) + 1)

\* a run that met an unreadable document, then a failed write, then wrote
C10_Witness ==
    /\ pos = Len(notebooks) + 1
    /\ \E i, j, k \in 1..Len(notebooks) :
          /\ i < j /\ j < k
          /\ ~start[notebooks[i]].readable
          /\ calls[j].wfail
          /\ Printed(notebooks[k]) = <<[kind |-> "Normalized", path |-> notebooks[k]]>>
          /\ disk[notebooks[k]].cells # start[notebooks[k]].cells

----------------------------------------------------------------------------
(* One document, processed and processed again *)

Processed == last.readable /\ Before # <<>>

Src == Before[1].source
NewSrc == After[1].source

\* C1: processing a document that an earlier run has already processed and
\* stored leaves every cell as it is
C1_Idempotent ==
    (last.readable /\ last.settled) => After = Before

\* C2: when processing alters no cell, nothing is written
C2_WriteOnlyIfChanged ==
    (last.readable /\ After = Before) => ~(last.wrote \/ last.wfail)

contains_text(s, p) ==
    \E i \in 1..Len(s) : i + Len(p) - 1 <= Len(s) /\ SubSeq(s, i, i + Len(p) - 1) = p

\* the detection rule as the claim states it
StatedDetection(src_text) ==
    LET lines == splitlines(src_text)
    IN  \/ startswith(lstrip(src_text), DASHES)
        \/ \E i \in 1..Len(lines) :
              i <= TITLE_SCAN /\ contains_text(lines[i], Chars("title:"))

\* C7: the first cell is retagged to markdown and normalized exactly when its
\* source, left-trimmed, starts with '---' or 'title:' occurs in one of its
\* first three lines; otherwise the cell is left alone, and a document with
\* no cells is neither changed nor written
C7_Detection ==
    last.readable =>
        IF Before = <<>>
        THEN After = <<>> /\ ~last.wrote /\ ~last.wfail
        ELSE IF StatedDetection(Src)
        THEN After[1].cell_type = "markdown" /\ NewSrc = new_source(Src)
        ELSE After[1].cell_type = Before[1].cell_type /\ NewSrc = Src

\* the closed case of the claim: line 0 is '---' and a later line is '---'
Closed(src_text) ==
    LET lines == splitlines(src_text)
    IN  /\ lines # <<>>
        /\ lines[1] = DASHES
        /\ \E i \in 2..Len(lines) : lines[i] = DASHES

\* the index of the first later line equal to '---'
FirstClosing(lines) ==
    CHOOSE i \in 2..Len(lines) :
        lines[i] = DASHES /\ \A j \in 2..(i - 1) : lines[j] # DASHES

\* '---', the normalized lines before the closing line, '---', the lines after
Reassembled(src_text) ==
    LET lines == splitlines(src_text)
        end   == FirstClosing(lines)
    IN  join(NL, <<DASHES>>
                 \o [i \in 1..(end - 2) |-> normalize_line(lines[i + 1])]
                 \o <<DASHES>>
                 \o [i \in 1..(Len(lines) - end) |-> lines[end + i]])

\* C8 as claimed: in the closed case the new source is the reassembled lines,
\* and it ends with a newline exactly when the original did
C8_ReassemblyAsClaimed ==
    (Processed /\ Closed(Src)) =>
        /\ NewSrc \in {Reassembled(Src), Reassembled(Src) \o NL}
        /\ endswith(NewSrc, NL) <=> endswith(Src, NL)

\* C8 as amended: in the closed case the new source is the reassembled lines
\* followed by one more newline exactly when the original ended with one
C8_Reassembly ==
    (Processed /\ Closed(Src)) =>
        NewSrc = Reassembled(Src) \o (IF endswith(Src, NL) THEN NL ELSE <<>>)

\* a closed block whose body was rewritten, with lines after the closing
\* line, one of them '---', in a source that ended with a newline
C8_Witness ==
    /\ Processed
    /\ Closed(Src)
    /\ endswith(Src, NL)
    /\ NewSrc # Src
    /\ LET lines == splitlines(Src)
       IN  /\ FirstClosing(lines) > 2
           /\ \E i \in (FirstClosing(lines) + 1)..Len(lines) : lines[i] = DASHES

\* a line the normalizer is to pass through
PassedThrough(line) ==
    \/ ~re_matches(line)
    \/ /\ lower(re_key(line)) \notin
              {Chars("comments"), Chars("title"), Chars("description")}
       /\ ~contains_char(re_val(line), ":")

\* line i of the source is outside the front-matter region, or inside it and
\* to be passed through (the delimiter lines of a block are left out)
Unrelated(lines, i) ==
    IF strip(lines[1]) = DASHES
    THEN IF \E j \in 2..Len(lines) : lines[j] = DASHES
         THEN \/ i > FirstClosing(lines)
              \/ i > 1 /\ i < FirstClosing(lines) /\ PassedThrough(lines[i])
         ELSE PassedThrough(lines[i])
    ELSE i > HEAD_LINES \/ PassedThrough(lines[i])

\* C9: the other cells' sources are left alone, and in the first cell every
\* line outside the front-matter region, and every line inside it that is no
\* 'key: value' line or has another key and no colon in its value, is still
\* there unchanged
C9_UnrelatedLines ==
    Processed =>
        /\ Len(After) = Len(Before)
        /\ \A i \in 2..Len(Before) : After[i].source = Before[i].source
        /\ ~last.detected => NewSrc = Src
        /\ last.detected =>
              LET lines == splitlines(Src)
                  kept  == splitlines(NewSrc)
              IN  \A i \in 1..Len(lines) :
                      Unrelated(lines, i) => (i <= Len(kept) /\ kept[i] = lines[i])

====
